---- MODULE Spec2Model ----
(***************************************************************************)
(* A model of package shlex: the rune classifier, the Tokenizer's          *)
(* scanStream state machine (one step per rune read), Lexer.Next and       *)
(* Split.  Runes are one-character strings, words are sequences of runes.  *)
(***************************************************************************)
EXTENDS Integers, Sequences, FiniteSets, TLC

(* ------------------------------ bounds --------------------------------- *)

\* longest enumerated input, in runes
MaxLen == 3

\* most calls of Next a caller makes on one Tokenizer or Lexer
MaxCalls == 5

(* ------------------------- named classes of runes ---------------------- *)

charRunes ==
  { "a","b","c","d","e","f","g","h","i","j","k","l","m","n","o","p","q","r",
    "s","t","u","v","w","x","y","z",
    "A","B","C","D","E","F","G","H","I","J","K","L","M","N","O","P","Q","R",
    "S","T","U","V","W","X","Y","Z",
    "0","1","2","3","4","5","6","7","8","9",
    ".","_","-",",","|" }

spaceRunes == { " ", "\t", "\r", "\n" }

escapingQuoteRunes == { "\"" }

nonEscapingQuoteRunes == { "'" }

escapeRunes == { "\\" }

commentRunes == { "#" }

(* --------------------------- classes of rune --------------------------- *)

unknownRuneClass == 0

charRuneClass == 1

spaceRuneClass == 2

escapingQuoteRuneClass == 3

nonEscapingQuoteRuneClass == 4

escapeRuneClass == 5

commentRuneClass == 6

eofRuneClass == 7

(* ----------------------- classes of lexographic token ------------------ *)

UnknownToken == 0

WordToken == 1

SpaceToken == 2

CommentToken == 3

(* ---------------------- lexer state machine states --------------------- *)

startState == 0

inWordState == 1

escapingState == 2

escapingQuotedState == 3

quotingEscapingState == 4

quotingState == 5

commentState == 6

(* ------------------------------ classifier ----------------------------- *)

\* addRuneClass: every rune of runes is (re)assigned tokenType in typeMap
addRuneClass(typeMap, runes, tokenType) ==
  [r \in (DOMAIN typeMap) \cup runes |->
      IF r \in runes THEN tokenType ELSE typeMap[r]]

\* the typeMap NewDefaultClassifier builds, set by set
NewDefaultClassifier ==
  LET m0 == [r \in {} |-> unknownRuneClass]
      m1 == addRuneClass(m0, charRunes, charRuneClass)
      m2 == addRuneClass(m1, spaceRunes, spaceRuneClass)
      m3 == addRuneClass(m2, escapingQuoteRunes, escapingQuoteRuneClass)
      m4 == addRuneClass(m3, nonEscapingQuoteRunes, nonEscapingQuoteRuneClass)
      m5 == addRuneClass(m4, escapeRunes, escapeRuneClass)
  IN  addRuneClass(m5, commentRunes, commentRuneClass)

(* ------------- the same, as src/shlex.go declares them ----------------- *)

RUNE_CHAR ==
  { "a","b","c","d","e","f","g","h","i","j","k","l","m","n","o","p","q","r",
    "s","t","u","v","w","x","y","z",
    "A","B","C","D","E","F","G","H","I","J","K","L","M","N","O","P","Q","R",
    "S","T","U","V","W","X","Y","Z",
    "0","1","2","3","4","5","6","7","8","9",
    ".","_","-","," }

RUNE_SPACE == { " ", "\t", "\r", "\n" }

RUNE_ESCAPING_QUOTE == { "\"" }

RUNE_NONESCAPING_QUOTE == { "'" }

RUNE_ESCAPE == { "\\" }

RUNE_COMMENT == { "#" }

\* NewDefaultClassifier of src/shlex.go; its RUNETOKEN_ classes carry the
\* numbers of the RuneClass names above
NewDefaultClassifierShlexGo ==
  LET m0 == [r \in {} |-> unknownRuneClass]
      m1 == addRuneClass(m0, RUNE_CHAR, charRuneClass)
      m2 == addRuneClass(m1, RUNE_SPACE, spaceRuneClass)
      m3 == addRuneClass(m2, RUNE_ESCAPING_QUOTE, escapingQuoteRuneClass)
      m4 == addRuneClass(m3, RUNE_NONESCAPING_QUOTE, nonEscapingQuoteRuneClass)
      m5 == addRuneClass(m4, RUNE_ESCAPE, escapeRuneClass)
  IN  addRuneClass(m5, RUNE_COMMENT, commentRuneClass)

(* ------------------------------- values -------------------------------- *)

\* the nil error
NoErr == << >>

\* io.EOF
ioEOF == << "EOF" >>

ErrUnknownRune(r) == << "Uknown rune", r >>

ErrEscapeEOF == << "EOF found after escape character" >>

ErrQuoteEOF == << "EOF found when expecting closing quote" >>

ErrUnknownTokenType(tt) == << "Unknown token type", tt >>

\* a *Token: nil, or a pointer to Token{tokenType, value}
NilToken == [nil |-> TRUE, tokenType |-> UnknownToken, value |-> << >>]

Token(tt, v) == [nil |-> FALSE, tokenType |-> tt, value |-> v]

\* Token.Equal without its nil check
Equal_NoNilCheck(a, b) ==
  IF a.tokenType # b.tokenType THEN FALSE ELSE a.value = b.value

\* Token.Equal, a and b being *Token
Equal(a, b) ==
  IF a.nil \/ b.nil THEN FALSE
  ELSE IF a.tokenType # b.tokenType THEN FALSE
  ELSE a.value = b.value

\* the rune ReadRune returns together with io.EOF
NUL == ""

(* ------------------------------- inputs -------------------------------- *)

\* the runes the enumerated inputs are made of: one or two of each class and
\* "!" for the runes the classifier does not know
Alphabet == { "a", " ", "\n", "\"", "'", "\\", "#", "!" }

RECURSIVE SeqsUpTo(_, _)
SeqsUpTo(S, n) ==
  IF n = 0 THEN { << >> }
  ELSE LET shorter == SeqsUpTo(S, n - 1)
       IN  shorter \cup { Append(s, x) : s \in shorter, x \in S }

\* one "two three" four
InDoubleQuoted ==
  << "o","n","e"," ","\"","t","w","o"," ","t","h","r","e","e","\""," ",
     "f","o","u","r" >>

\* a'b'c
InAdjacent == << "a","'","b","'","c" >>

\* # a comment<LF>word
InComment ==
  << "#"," ","a"," ","c","o","m","m","e","n","t","\n","w","o","r","d" >>

\* a\ b
InEscapedSpace == << "a","\\"," ","b" >>

\* 'a\b'
InSingleQuotedEscape == << "'","a","\\","b","'" >>

\* "unterminated
InUnterminatedQuote ==
  << "\"","u","n","t","e","r","m","i","n","a","t","e","d" >>

\* trailing\
InTrailingEscape == << "t","r","a","i","l","i","n","g","\\" >>

\* ok 'open   (a complete word, then an unterminated single quote)
InWordThenOpenQuote == << "o","k"," ","'","o","p","e","n" >>

\* <TAB>one  two<CR><LF>three<LF>
InPlainWords ==
  << "\t","o","n","e"," "," ","t","w","o","\r","\n","t","h","r","e","e","\n" >>

\* $   (a rune of no class)
InDollar == << "$" >>

\* a|b
InPipe == << "a","|","b" >>

\* #a"'\# <TAB><CR><LF>b   (a comment holding a rune of every class)
InCommentAllClasses ==
  << "#","a","\"","'","\\","#"," ","\t","\r","\n","b" >>

\* x\#"a\" \\\'#"\'   (escapes outside and inside double quotes)
InEscapes ==
  << "x","\\","#","\"","a","\\","\""," ","\\","\\","\\","'","#","\"",
     "\\","'" >>

\* a#b"#"'#'#   (comment runes inside a word)
InHashInWord == << "a","#","b","\"","#","\"","'","#","'","#" >>

\* a "" b   (an empty pair of double quotes between two words)
InEmptyDoubleQuotes == << "a"," ","\"","\""," ","b" >>

\* a '' b   (an empty pair of single quotes between two words)
InEmptySingleQuotes == << "a"," ","'","'"," ","b" >>

\* ""''""   (three empty pairs of quotes side by side)
InEmptyQuotePairs == << "\"","\"","'","'","\"","\"" >>

Samples ==
  { InDoubleQuoted, InAdjacent, InComment, InEscapedSpace,
    InSingleQuotedEscape, InUnterminatedQuote, InTrailingEscape,
    InWordThenOpenQuote, InPlainWords, InDollar, InPipe,
    InCommentAllClasses, InEscapes, InHashInWord,
    InEmptyDoubleQuotes, InEmptySingleQuotes, InEmptyQuotePairs }

Inputs == SeqsUpTo(Alphabet, MaxLen) \cup Samples

(* -------------------------------- state -------------------------------- *)

VARIABLES
  classifier,  \* Tokenizer.classifier: its typeMap
  input,       \* the runes of the io.Reader under the Tokenizer
  pos,         \* how many of them the bufio.Reader has handed out
  api,         \* the entry point the caller uses: Tokenizer, Lexer or Split
  pc,          \* idle | scan | lexer | split | done
  state,       \* scanStream: state
  tokenType,   \* scanStream: tokenType
  value,       \* scanStream: value
  tokStart,    \* cursor position at which the running scanStream call began
  retToken,    \* last result of Tokenizer.Next: the token
  retErr,      \* last result of Tokenizer.Next: the error
  tlog,        \* every result of Tokenizer.Next so far, in order, each with
               \* the cursor positions its scan began and ended at
  word,        \* last result of Lexer.Next: the word
  lexErr,      \* last result of Lexer.Next: the error
  llog,        \* every result of Lexer.Next so far, in order
  subStrings,  \* Split: subStrings
  splitRet,    \* what Split returned
  round,       \* 1: Split(s); 2: Split of the joined words of round 1
  first,       \* round 2: the input and the result of round 1
  eqArgs,      \* Token.Equal: the receiver and the argument of the last call
  eqRet        \* Token.Equal: what that call returned

vars ==
  << classifier, eqArgs, eqRet, input, pos, api, pc, state, tokenType, value, tokStart, retToken, retErr,
     tlog, word, lexErr, llog, subStrings, splitRet, round, first >>

NoRet == [returned |-> FALSE, nil |-> TRUE, words |-> << >>, err |-> NoErr]

NoFirst == [input |-> << >>, words |-> << >>]

\* the state NewTokenizer (under NewLexer, under Split) leaves, the classifier
\* being c
Constructed(c) ==
  /\ classifier = c
  /\ pos = 0
  /\ pc = "idle"
  /\ state = startState
  /\ tokenType = UnknownToken
  /\ value = << >>
  /\ tokStart = 0
  /\ retToken = NilToken
  /\ retErr = NoErr
  /\ tlog = << >>
  /\ word = << >>
  /\ lexErr = NoErr
  /\ llog = << >>
  /\ subStrings = << >>
  /\ splitRet = NoRet
  /\ round = 1
  /\ first = NoFirst
  /\ eqArgs = << >>
  /\ eqRet = FALSE

Init ==
  /\ input \in Inputs
  /\ api \in { "Tokenizer", "Lexer", "Split" }
  /\ Constructed(NewDefaultClassifier)

\* the same program built from src/shlex.go
InitShlexGo ==
  /\ input \in Inputs
  /\ api \in { "Tokenizer", "Lexer", "Split" }
  /\ Constructed(NewDefaultClassifierShlexGo)

\* a Go map lookup: a missing key yields the zero value, unknownRuneClass
ClassifyRune(runeVal) ==
  IF runeVal \in DOMAIN classifier
    THEN classifier[runeVal]
    ELSE unknownRuneClass

(* ------------------------------ the reader ----------------------------- *)

\* bufio.Reader.ReadRune: the next rune and the advanced cursor, or io.EOF
ReadRune ==
  IF pos < Len(input)
    THEN [rune |-> input[pos + 1], err |-> NoErr, pos |-> pos + 1]
    ELSE [rune |-> NUL, err |-> ioEOF, pos |-> pos]

\* bufio.Reader.UnreadRune, called right after a ReadRune that returned a rune
UnreadRune(p) == p - 1

nextRune == ReadRune.rune

\* the class scanStream switches on: the classifier's, or eofRuneClass at EOF
nextRuneType ==
  IF ReadRune.err = ioEOF THEN eofRuneClass ELSE ClassifyRune(ReadRune.rune)

(* ------------------------------ scanStream ----------------------------- *)

\* the loop goes round: the rune is consumed, the locals are updated
Continue(st, tt, v) ==
  /\ pos' = ReadRune.pos
  /\ state' = st
  /\ tokenType' = tt
  /\ value' = v
  /\ UNCHANGED << input, api, pc, tokStart, retToken, retErr, tlog, word,
                  lexErr, llog, subStrings, splitRet, round, first,
                  classifier, eqArgs, eqRet >>

\* scanStream returns (tok, err) with the cursor at p; Tokenizer.Next hands
\* the pair on to its caller
Return(tok, err, p) ==
  /\ pos' = p
  /\ retToken' = tok
  /\ retErr' = err
  /\ tlog' = Append(tlog, [token |-> tok, err |-> err,
                            from |-> tokStart, to |-> p])
  /\ pc' = IF api = "Tokenizer" THEN "idle" ELSE "lexer"
  /\ state' = startState
  /\ tokenType' = UnknownToken
  /\ value' = << >>
  /\ UNCHANGED << input, api, tokStart, word, lexErr, llog, subStrings,
                  splitRet, round, first,
                  classifier, eqArgs, eqRet >>

\* the statements after the SCAN loop: the token is built from the locals and
\* returned with whatever err holds
AfterScan(tt, v, err, p) == Return(Token(tt, v), err, p)

\* a rune of unknownRuneClass, in any state
UnknownRune == Return(NilToken, ErrUnknownRune(nextRune), ReadRune.pos)

\* startStateCase without the append of the rune that begins the word
startStateCase_FirstRuneDropped ==
  /\ pc = "scan"
  /\ state = startState
  /\ CASE nextRuneType = eofRuneClass -> Return(NilToken, ioEOF, ReadRune.pos)
       [] nextRuneType = charRuneClass ->
            Continue(inWordState, WordToken, value)
       [] nextRuneType = spaceRuneClass ->
            Continue(state, tokenType, value)
       [] nextRuneType = escapingQuoteRuneClass ->
            Continue(quotingEscapingState, WordToken, value)
       [] nextRuneType = nonEscapingQuoteRuneClass ->
            Continue(quotingState, WordToken, value)
       [] nextRuneType = escapeRuneClass ->
            Continue(escapingState, WordToken, value)
       [] nextRuneType = commentRuneClass ->
            Continue(commentState, CommentToken, value)
       [] OTHER -> UnknownRune

\* startStateCase with whitespace handled as inWordState handles it
startStateCase_SpaceEndsWord ==
  /\ pc = "scan"
  /\ state = startState
  /\ CASE nextRuneType = eofRuneClass -> Return(NilToken, ioEOF, ReadRune.pos)
       [] nextRuneType = charRuneClass ->
            Continue(inWordState, WordToken, Append(value, nextRune))
       [] nextRuneType = spaceRuneClass ->
            AfterScan(WordToken, value, NoErr, UnreadRune(ReadRune.pos))
       [] nextRuneType = escapingQuoteRuneClass ->
            Continue(quotingEscapingState, WordToken, value)
       [] nextRuneType = nonEscapingQuoteRuneClass ->
            Continue(quotingState, WordToken, value)
       [] nextRuneType = escapeRuneClass ->
            Continue(escapingState, WordToken, value)
       [] nextRuneType = commentRuneClass ->
            Continue(commentState, CommentToken, value)
       [] OTHER -> UnknownRune

\* startStateCase with the escape case leaving tokenType as it was, UnknownToken
startStateCase_EscapeKeepsTokenType ==
  /\ pc = "scan"
  /\ state = startState
  /\ CASE nextRuneType = eofRuneClass -> Return(NilToken, ioEOF, ReadRune.pos)
       [] nextRuneType = charRuneClass ->
            Continue(inWordState, WordToken, Append(value, nextRune))
       [] nextRuneType = spaceRuneClass ->
            Continue(state, tokenType, value)
       [] nextRuneType = escapingQuoteRuneClass ->
            Continue(quotingEscapingState, WordToken, value)
       [] nextRuneType = nonEscapingQuoteRuneClass ->
            Continue(quotingState, WordToken, value)
       [] nextRuneType = escapeRuneClass ->
            Continue(escapingState, tokenType, value)
       [] nextRuneType = commentRuneClass ->
            Continue(commentState, CommentToken, value)
       [] OTHER -> UnknownRune

startStateCase ==
  /\ pc = "scan"
  /\ state = startState
  /\ CASE nextRuneType = eofRuneClass -> Return(NilToken, ioEOF, ReadRune.pos)
       [] nextRuneType = charRuneClass ->
            Continue(inWordState, WordToken, Append(value, nextRune))
       [] nextRuneType = spaceRuneClass ->
            Continue(state, tokenType, value)
       [] nextRuneType = escapingQuoteRuneClass ->
            Continue(quotingEscapingState, WordToken, value)
       [] nextRuneType = nonEscapingQuoteRuneClass ->
            Continue(quotingState, WordToken, value)
       [] nextRuneType = escapeRuneClass ->
            Continue(escapingState, WordToken, value)
       [] nextRuneType = commentRuneClass ->
            Continue(commentState, CommentToken, value)
       [] OTHER -> UnknownRune

\* inWordStateCase with an opening single quote ending the word, as whitespace does
inWordStateCase_QuoteEndsWord ==
  /\ pc = "scan"
  /\ state = inWordState
  /\ CASE nextRuneType = eofRuneClass ->
            AfterScan(tokenType, value, NoErr, ReadRune.pos)
       [] nextRuneType \in { charRuneClass, commentRuneClass } ->
            Continue(state, tokenType, Append(value, nextRune))
       [] nextRuneType = spaceRuneClass ->
            AfterScan(tokenType, value, NoErr, UnreadRune(ReadRune.pos))
       [] nextRuneType = escapingQuoteRuneClass ->
            Continue(quotingEscapingState, tokenType, value)
       [] nextRuneType = nonEscapingQuoteRuneClass ->
            AfterScan(tokenType, value, NoErr, UnreadRune(ReadRune.pos))
       [] nextRuneType = escapeRuneClass ->
            Continue(escapingState, tokenType, value)
       [] OTHER -> UnknownRune

\* inWordStateCase without the UnreadRune: the whitespace that ends a word stays consumed
inWordStateCase_NoUnread ==
  /\ pc = "scan"
  /\ state = inWordState
  /\ CASE nextRuneType = eofRuneClass ->
            AfterScan(tokenType, value, NoErr, ReadRune.pos)
       [] nextRuneType \in { charRuneClass, commentRuneClass } ->
            Continue(state, tokenType, Append(value, nextRune))
       [] nextRuneType = spaceRuneClass ->
            AfterScan(tokenType, value, NoErr, ReadRune.pos)
       [] nextRuneType = escapingQuoteRuneClass ->
            Continue(quotingEscapingState, tokenType, value)
       [] nextRuneType = nonEscapingQuoteRuneClass ->
            Continue(quotingState, tokenType, value)
       [] nextRuneType = escapeRuneClass ->
            Continue(escapingState, tokenType, value)
       [] OTHER -> UnknownRune

\* inWordStateCase with the end of input handled as startState handles it: io.EOF and no token
inWordStateCase_EOFDropsWord ==
  /\ pc = "scan"
  /\ state = inWordState
  /\ CASE nextRuneType = eofRuneClass ->
            Return(NilToken, ioEOF, ReadRune.pos)
       [] nextRuneType \in { charRuneClass, commentRuneClass } ->
            Continue(state, tokenType, Append(value, nextRune))
       [] nextRuneType = spaceRuneClass ->
            AfterScan(tokenType, value, NoErr, UnreadRune(ReadRune.pos))
       [] nextRuneType = escapingQuoteRuneClass ->
            Continue(quotingEscapingState, tokenType, value)
       [] nextRuneType = nonEscapingQuoteRuneClass ->
            Continue(quotingState, tokenType, value)
       [] nextRuneType = escapeRuneClass ->
            Continue(escapingState, tokenType, value)
       [] OTHER -> UnknownRune

inWordStateCase ==
  /\ pc = "scan"
  /\ state = inWordState
  /\ CASE nextRuneType = eofRuneClass ->
            AfterScan(tokenType, value, NoErr, ReadRune.pos)
       [] nextRuneType \in { charRuneClass, commentRuneClass } ->
            Continue(state, tokenType, Append(value, nextRune))
       [] nextRuneType = spaceRuneClass ->
            AfterScan(tokenType, value, NoErr, UnreadRune(ReadRune.pos))
       [] nextRuneType = escapingQuoteRuneClass ->
            Continue(quotingEscapingState, tokenType, value)
       [] nextRuneType = nonEscapingQuoteRuneClass ->
            Continue(quotingState, tokenType, value)
       [] nextRuneType = escapeRuneClass ->
            Continue(escapingState, tokenType, value)
       [] OTHER -> UnknownRune

\* escapingStateCase with whitespace left out of the escapable classes: it ends the word
escapingStateCase_SpaceEndsWord ==
  /\ pc = "scan"
  /\ state = escapingState
  /\ CASE nextRuneType = eofRuneClass ->
            AfterScan(tokenType, value, ErrEscapeEOF, ReadRune.pos)
       [] nextRuneType \in { charRuneClass,
                             escapingQuoteRuneClass, nonEscapingQuoteRuneClass,
                             escapeRuneClass, commentRuneClass } ->
            Continue(inWordState, tokenType, Append(value, nextRune))
       [] nextRuneType = spaceRuneClass ->
            AfterScan(tokenType, value, NoErr, UnreadRune(ReadRune.pos))
       [] OTHER -> UnknownRune

escapingStateCase ==
  /\ pc = "scan"
  /\ state = escapingState
  /\ CASE nextRuneType = eofRuneClass ->
            AfterScan(tokenType, value, ErrEscapeEOF, ReadRune.pos)
       [] nextRuneType \in { charRuneClass, spaceRuneClass,
                             escapingQuoteRuneClass, nonEscapingQuoteRuneClass,
                             escapeRuneClass, commentRuneClass } ->
            Continue(inWordState, tokenType, Append(value, nextRune))
       [] OTHER -> UnknownRune

\* escapingQuotedStateCase going on in inWordState, as escapingState does: the escaped rune closes the quote
escapingQuotedStateCase_LeavesQuote ==
  /\ pc = "scan"
  /\ state = escapingQuotedState
  /\ CASE nextRuneType = eofRuneClass ->
            AfterScan(tokenType, value, ErrEscapeEOF, ReadRune.pos)
       [] nextRuneType \in { charRuneClass, spaceRuneClass,
                             escapingQuoteRuneClass, nonEscapingQuoteRuneClass,
                             escapeRuneClass, commentRuneClass } ->
            Continue(inWordState, tokenType, Append(value, nextRune))
       [] OTHER -> UnknownRune

escapingQuotedStateCase ==
  /\ pc = "scan"
  /\ state = escapingQuotedState
  /\ CASE nextRuneType = eofRuneClass ->
            AfterScan(tokenType, value, ErrEscapeEOF, ReadRune.pos)
       [] nextRuneType \in { charRuneClass, spaceRuneClass,
                             escapingQuoteRuneClass, nonEscapingQuoteRuneClass,
                             escapeRuneClass, commentRuneClass } ->
            Continue(quotingEscapingState, tokenType, Append(value, nextRune))
       [] OTHER -> UnknownRune

\* quotingEscapingStateCase with whitespace handled as inWordState handles it
quotingEscapingStateCase_SpaceEndsWord ==
  /\ pc = "scan"
  /\ state = quotingEscapingState
  /\ CASE nextRuneType = eofRuneClass ->
            AfterScan(tokenType, value, ErrQuoteEOF, ReadRune.pos)
       [] nextRuneType \in { charRuneClass,
                             nonEscapingQuoteRuneClass, commentRuneClass } ->
            Continue(state, tokenType, Append(value, nextRune))
       [] nextRuneType = spaceRuneClass ->
            AfterScan(tokenType, value, NoErr, UnreadRune(ReadRune.pos))
       [] nextRuneType = escapingQuoteRuneClass ->
            Continue(inWordState, tokenType, value)
       [] nextRuneType = escapeRuneClass ->
            Continue(escapingQuotedState, tokenType, value)
       [] OTHER -> UnknownRune

\* quotingEscapingStateCase with end of input ending the word, as in inWordState
quotingEscapingStateCase_EOFEndsWord ==
  /\ pc = "scan"
  /\ state = quotingEscapingState
  /\ CASE nextRuneType = eofRuneClass ->
            AfterScan(tokenType, value, NoErr, ReadRune.pos)
       [] nextRuneType \in { charRuneClass, spaceRuneClass,
                             nonEscapingQuoteRuneClass, commentRuneClass } ->
            Continue(state, tokenType, Append(value, nextRune))
       [] nextRuneType = escapingQuoteRuneClass ->
            Continue(inWordState, tokenType, value)
       [] nextRuneType = escapeRuneClass ->
            Continue(escapingQuotedState, tokenType, value)
       [] OTHER -> UnknownRune

\* quotingEscapingStateCase with a closing quote that found no text going back to startState: empty quotes make no token
quotingEscapingStateCase_EmptyQuotesNoToken ==
  /\ pc = "scan"
  /\ state = quotingEscapingState
  /\ CASE nextRuneType = eofRuneClass ->
            AfterScan(tokenType, value, ErrQuoteEOF, ReadRune.pos)
       [] nextRuneType \in { charRuneClass, spaceRuneClass,
                             nonEscapingQuoteRuneClass, commentRuneClass } ->
            Continue(state, tokenType, Append(value, nextRune))
       [] nextRuneType = escapingQuoteRuneClass ->
            Continue(IF value = << >> THEN startState ELSE inWordState,
                     tokenType, value)
       [] nextRuneType = escapeRuneClass ->
            Continue(escapingQuotedState, tokenType, value)
       [] OTHER -> UnknownRune

quotingEscapingStateCase ==
  /\ pc = "scan"
  /\ state = quotingEscapingState
  /\ CASE nextRuneType = eofRuneClass ->
            AfterScan(tokenType, value, ErrQuoteEOF, ReadRune.pos)
       [] nextRuneType \in { charRuneClass, spaceRuneClass,
                             nonEscapingQuoteRuneClass, commentRuneClass } ->
            Continue(state, tokenType, Append(value, nextRune))
       [] nextRuneType = escapingQuoteRuneClass ->
            Continue(inWordState, tokenType, value)
       [] nextRuneType = escapeRuneClass ->
            Continue(escapingQuotedState, tokenType, value)
       [] OTHER -> UnknownRune

\* quotingStateCase with the escape rune handled as quotingEscapingState handles it
quotingStateCase_EscapeEscapes ==
  /\ pc = "scan"
  /\ state = quotingState
  /\ CASE nextRuneType = eofRuneClass ->
            AfterScan(tokenType, value, ErrQuoteEOF, ReadRune.pos)
       [] nextRuneType \in { charRuneClass, spaceRuneClass,
                             escapingQuoteRuneClass,
                             commentRuneClass } ->
            Continue(state, tokenType, Append(value, nextRune))
       [] nextRuneType = escapeRuneClass ->
            Continue(escapingQuotedState, tokenType, value)
       [] nextRuneType = nonEscapingQuoteRuneClass ->
            Continue(inWordState, tokenType, value)
       [] OTHER -> UnknownRune

quotingStateCase ==
  /\ pc = "scan"
  /\ state = quotingState
  /\ CASE nextRuneType = eofRuneClass ->
            AfterScan(tokenType, value, ErrQuoteEOF, ReadRune.pos)
       [] nextRuneType \in { charRuneClass, spaceRuneClass,
                             escapingQuoteRuneClass, escapeRuneClass,
                             commentRuneClass } ->
            Continue(state, tokenType, Append(value, nextRune))
       [] nextRuneType = nonEscapingQuoteRuneClass ->
            Continue(inWordState, tokenType, value)
       [] OTHER -> UnknownRune

\* commentStateCase with every rune but the newline taken as comment text
commentStateCase_UnknownIsText ==
  /\ pc = "scan"
  /\ state = commentState
  /\ CASE nextRuneType = eofRuneClass ->
            AfterScan(tokenType, value, NoErr, ReadRune.pos)
       [] nextRuneType \in { charRuneClass, escapingQuoteRuneClass,
                             escapeRuneClass, commentRuneClass,
                             nonEscapingQuoteRuneClass } ->
            Continue(state, tokenType, Append(value, nextRune))
       [] nextRuneType = spaceRuneClass ->
            IF nextRune = "\n"
              THEN AfterScan(tokenType, value, NoErr, ReadRune.pos)
              ELSE Continue(state, tokenType, Append(value, nextRune))
       [] OTHER -> Continue(state, tokenType, Append(value, nextRune))

\* commentStateCase with every whitespace rune, not the newline alone, ending the comment
commentStateCase_SpaceEndsComment ==
  /\ pc = "scan"
  /\ state = commentState
  /\ CASE nextRuneType = eofRuneClass ->
            AfterScan(tokenType, value, NoErr, ReadRune.pos)
       [] nextRuneType \in { charRuneClass, escapingQuoteRuneClass,
                             escapeRuneClass, commentRuneClass,
                             nonEscapingQuoteRuneClass } ->
            Continue(state, tokenType, Append(value, nextRune))
       [] nextRuneType = spaceRuneClass ->
            AfterScan(tokenType, value, NoErr, ReadRune.pos)
       [] OTHER -> UnknownRune

commentStateCase ==
  /\ pc = "scan"
  /\ state = commentState
  /\ CASE nextRuneType = eofRuneClass ->
            AfterScan(tokenType, value, NoErr, ReadRune.pos)
       [] nextRuneType \in { charRuneClass, escapingQuoteRuneClass,
                             escapeRuneClass, commentRuneClass,
                             nonEscapingQuoteRuneClass } ->
            Continue(state, tokenType, Append(value, nextRune))
       [] nextRuneType = spaceRuneClass ->
            IF nextRune = "\n"
              THEN AfterScan(tokenType, value, NoErr, ReadRune.pos)
              ELSE Continue(state, tokenType, Append(value, nextRune))
       [] OTHER -> UnknownRune

\* scanStream is entered: state := startState, value := make([]rune, 0, ...)
EnterScan ==
  /\ pc' = "scan"
  /\ state' = startState
  /\ tokenType' = UnknownToken
  /\ value' = << >>
  /\ tokStart' = pos

(* ---------------------------- Tokenizer.Next --------------------------- *)

\* a caller that holds the Tokenizer calls Next
TokenizerNext ==
  /\ api = "Tokenizer"
  /\ pc = "idle"
  /\ Len(tlog) < MaxCalls
  /\ EnterScan
  /\ UNCHANGED << input, pos, api, retToken, retErr, tlog, word, lexErr, llog,
                  subStrings, splitRet, round, first,
                  classifier, eqArgs, eqRet >>

(* ------------------------------ Lexer.Next ----------------------------- *)

\* Lexer.Next returns (w, err) to its caller
LexerReturn(w, err) ==
  /\ word' = w
  /\ lexErr' = err
  /\ llog' = Append(llog, [word |-> w, err |-> err])
  /\ pc' = IF api = "Lexer" THEN "idle" ELSE "split"
  /\ UNCHANGED << input, pos, api, state, tokenType, value, tokStart,
                  retToken, retErr, tlog, subStrings, splitRet, round, first,
                  classifier, eqArgs, eqRet >>

\* a caller that holds the Lexer calls Next: the first l.tokenizer.Next()
LexerNext ==
  /\ api = "Lexer"
  /\ pc = "idle"
  /\ Len(llog) < MaxCalls
  /\ EnterScan
  /\ UNCHANGED << input, pos, api, retToken, retErr, tlog, word, lexErr, llog,
                  subStrings, splitRet, round, first,
                  classifier, eqArgs, eqRet >>

\* the body of Lexer.Next's loop, once l.tokenizer.Next() has returned
\* LexerNextResult with CommentToken sharing the WordToken case
LexerNextResult_CommentAsWord ==
  /\ pc = "lexer"
  /\ IF retErr # NoErr
       THEN LexerReturn(<< >>, retErr)
       ELSE CASE retToken.tokenType \in { WordToken, CommentToken } ->
                   LexerReturn(retToken.value, NoErr)
              [] retToken.tokenType = CommentToken ->
                   /\ EnterScan
                   /\ UNCHANGED << input, pos, api, retToken, retErr, tlog,
                                   word, lexErr, llog, subStrings, splitRet,
                                   round, first,
                                   classifier, eqArgs, eqRet >>
              [] OTHER ->
                   LexerReturn(<< >>, ErrUnknownTokenType(retToken.tokenType))

\* LexerNextResult without the loop: a comment is answered with an empty word
LexerNextResult_CommentIsEmptyWord ==
  /\ pc = "lexer"
  /\ IF retErr # NoErr
       THEN LexerReturn(<< >>, retErr)
       ELSE CASE retToken.tokenType = WordToken ->
                   LexerReturn(retToken.value, NoErr)
              [] retToken.tokenType = CommentToken ->
                   LexerReturn(<< >>, NoErr)
              [] OTHER ->
                   LexerReturn(<< >>, ErrUnknownTokenType(retToken.tokenType))

LexerNextResult ==
  /\ pc = "lexer"
  /\ IF retErr # NoErr
       THEN LexerReturn(<< >>, retErr)
       ELSE CASE retToken.tokenType = WordToken ->
                   LexerReturn(retToken.value, NoErr)
              [] retToken.tokenType = CommentToken ->
                   /\ EnterScan
                   /\ UNCHANGED << input, pos, api, retToken, retErr, tlog,
                                   word, lexErr, llog, subStrings, splitRet,
                                   round, first,
                                   classifier, eqArgs, eqRet >>
              [] OTHER ->
                   LexerReturn(<< >>, ErrUnknownTokenType(retToken.tokenType))

(* -------------------------------- Split -------------------------------- *)

\* Split returns (ws, err); ws is subStrings, made by make([]string, 0)
SplitReturn(ws, err) ==
  /\ splitRet' = [returned |-> TRUE, nil |-> FALSE, words |-> ws, err |-> err]
  /\ pc' = "done"
  /\ UNCHANGED << input, pos, api, state, tokenType, value, tokStart,
                  retToken, retErr, tlog, word, lexErr, llog, subStrings,
                  round, first,
                  classifier, eqArgs, eqRet >>

\* Split(s) is called: NewLexer, subStrings := make([]string, 0), l.Next()
Split ==
  /\ api = "Split"
  /\ pc = "idle"
  /\ subStrings' = << >>
  /\ EnterScan
  /\ UNCHANGED << input, pos, api, retToken, retErr, tlog, word, lexErr, llog,
                  splitRet, round, first,
                  classifier, eqArgs, eqRet >>

\* the body of Split's loop, once l.Next() has returned
\* SplitLoop returning no words with an error other than io.EOF
SplitLoop_WordsDroppedOnError ==
  /\ pc = "split"
  /\ IF lexErr # NoErr
       THEN IF lexErr = ioEOF
              THEN SplitReturn(subStrings, NoErr)
              ELSE SplitReturn(<< >>, lexErr)
       ELSE /\ subStrings' = Append(subStrings, word)
            /\ EnterScan
            /\ UNCHANGED << input, pos, api, retToken, retErr, tlog, word,
                            lexErr, llog, splitRet, round, first,
                            classifier, eqArgs, eqRet >>

SplitLoop ==
  /\ pc = "split"
  /\ IF lexErr # NoErr
       THEN IF lexErr = ioEOF
              THEN SplitReturn(subStrings, NoErr)
              ELSE SplitReturn(subStrings, lexErr)
       ELSE /\ subStrings' = Append(subStrings, word)
            /\ EnterScan
            /\ UNCHANGED << input, pos, api, retToken, retErr, tlog, word,
                            lexErr, llog, splitRet, round, first,
                            classifier, eqArgs, eqRet >>

\* strings.Join(words, " ")
RECURSIVE Join(_)
Join(words) ==
  IF words = << >> THEN << >>
  ELSE IF Len(words) = 1 THEN words[1]
  ELSE words[1] \o << " " >> \o Join(Tail(words))

\* a caller of Split that got words and no error calls Split again, on the
\* words joined by single spaces
Resplit ==
  /\ api = "Split"
  /\ pc = "done"
  /\ round = 1
  /\ splitRet.err = NoErr
  /\ first' = [input |-> input, words |-> splitRet.words]
  /\ round' = 2
  /\ input' = Join(splitRet.words)
  /\ pos' = 0
  /\ pc' = "idle"
  /\ tokStart' = 0
  /\ retToken' = NilToken
  /\ retErr' = NoErr
  /\ tlog' = << >>
  /\ word' = << >>
  /\ lexErr' = NoErr
  /\ llog' = << >>
  /\ subStrings' = << >>
  /\ splitRet' = NoRet
  /\ UNCHANGED << api, state, tokenType, value,
                  classifier, eqArgs, eqRet >>

(* ---------------------------- specification ---------------------------- *)

Next ==
  \/ TokenizerNext
  \/ LexerNext
  \/ Split
  \/ startStateCase
  \/ inWordStateCase
  \/ escapingStateCase
  \/ escapingQuotedStateCase
  \/ quotingEscapingStateCase
  \/ quotingStateCase
  \/ commentStateCase
  \/ LexerNextResult
  \/ SplitLoop
  \/ Resplit

Spec == Init /\ [][Next]_vars

SpecShlexGo == InitShlexGo /\ [][Next]_vars

\* the steps of a call that is under way: the calling goroutine runs on
Running ==
  \/ startStateCase
  \/ inWordStateCase
  \/ escapingStateCase
  \/ escapingQuotedStateCase
  \/ quotingEscapingStateCase
  \/ quotingStateCase
  \/ commentStateCase
  \/ LexerNextResult
  \/ SplitLoop

\* a call, once made, is run to its return; a caller need not call again
FairSpec == Spec /\ WF_vars(Running)

(* ------------------------------ Token.Equal ---------------------------- *)

\* the *Token values Equal is called on: nil, and tokens of every type over
\* a few texts
TokenPointers ==
  { NilToken } \cup
  { Token(tt, v) : tt \in { UnknownToken, WordToken, SpaceToken, CommentToken },
                   v \in { << >>, << "a" >>, << "b" >>, << "a","b" >> } }

InitEqual ==
  /\ input = << >>
  /\ api = "Equal"
  /\ Constructed(NewDefaultClassifier)

\* a caller calls a.Equal(b)
TokenEqual ==
  /\ api = "Equal"
  /\ \E a \in TokenPointers, b \in TokenPointers :
        /\ eqArgs' = << a, b >>
        /\ eqRet' = Equal(a, b)
  /\ UNCHANGED << classifier, input, pos, api, pc, state, tokenType, value,
                  tokStart, retToken, retErr, tlog, word, lexErr, llog,
                  subStrings, splitRet, round, first >>

SpecEqual == InitEqual /\ [][TokenEqual]_vars

TypeOK ==
  /\ pos \in 0..Len(input)
  /\ pc \in { "idle", "scan", "lexer", "split", "done" }
  /\ state \in startState..commentState
  /\ tokenType \in { UnknownToken, WordToken, CommentToken }

(* ======================================================================= *)
(* Properties                                                              *)
(* ======================================================================= *)

\* scanStream is about to read a rune of class cls in state st
ScanReads(st, cls) == pc = "scan" /\ state = st /\ nextRuneType = cls

\* the step consumed the rune and went round the loop: no result, state st
\* and value v
GoesOn(st, v) ==
  /\ pc' = "scan"
  /\ state' = st
  /\ value' = v
  /\ pos' = pos + 1
  /\ tlog' = tlog

\* Split(s), the first call, has returned
SplitDone == api = "Split" /\ pc = "done" /\ round = 1

SplitReturned(in, ws, err) ==
  SplitDone /\ input = in => splitRet.words = ws /\ splitRet.err = err

OnlyClasses(s, classes) == \A i \in 1..Len(s) : ClassifyRune(s[i]) \in classes

\* the positions of s strictly inside a pair of double quotes, for an s whose
\* only special runes are double quotes
InsideDoubleQuotes(s) ==
  { i \in 1..Len(s) :
      /\ s[i] \notin escapingQuoteRunes
      /\ Cardinality({ j \in 1..(i - 1) : s[j] \in escapingQuoteRunes }) % 2 = 1 }

\* the (word, index) pairs of the runes of ws that lie in S
RunesIn(ws, S) ==
  { p \in UNION { { << k, i >> : i \in 1..Len(ws[k]) } : k \in 1..Len(ws) } :
      ws[p[1]][p[2]] \in S }

BalancedDoubleQuotesOnly(s) ==
  /\ OnlyClasses(s, { charRuneClass, spaceRuneClass, escapingQuoteRuneClass })
  /\ Cardinality({ j \in 1..Len(s) : s[j] \in escapingQuoteRunes }) % 2 = 0

C1_Words == << << "o","n","e" >>, << "t","w","o"," ","t","h","r","e","e" >>,
               << "f","o","u","r" >> >>

\* Split of an input whose only quotes are balanced double quotes succeeds,
\* its words hold exactly the whitespace that stood between the quotes, and
\* none of the quote runes
C1_Result ==
  SplitDone /\ BalancedDoubleQuotesOnly(input) =>
    /\ splitRet.err = NoErr
    /\ Cardinality(RunesIn(splitRet.words, spaceRunes))
         = Cardinality({ i \in InsideDoubleQuotes(input) : input[i] \in spaceRunes })
    /\ RunesIn(splitRet.words, escapingQuoteRunes) = {}

\* C1: whitespace read inside double quotes is appended to the word and does
\* not end it (the scanner stays in quotingEscapingState and returns nothing);
\* Split of an input whose only quotes are balanced double quotes keeps the
\* quoted whitespace in its words and drops the quotes; and
\* Split(`one "two three" four`) = ["one", "two three", "four"], nil.
C1_DoubleQuotedWhitespace ==
  [][ /\ ScanReads(quotingEscapingState, spaceRuneClass)
          => GoesOn(quotingEscapingState, Append(value, nextRune))
      /\ C1_Result'
      /\ SplitReturned(InDoubleQuoted, C1_Words, NoErr)' ]_vars

C1_Witness ==
  /\ SplitDone
  /\ input = InDoubleQuoted
  /\ splitRet.words = C1_Words
  /\ splitRet.err = NoErr

\* a Word token is returned with a nil error by this step
ReturnsWord ==
  /\ Len(tlog') = Len(tlog) + 1
  /\ retErr' = NoErr
  /\ ~ retToken'.nil
  /\ retToken'.tokenType = WordToken

\* C2: a closing single or double quote takes the scanner back to inWordState
\* with the value unchanged and no token returned; a Word token is returned
\* (with a nil error) only from inWordState, on whitespace or at end of input;
\* and Split(`a'b'c`) = ["abc"], nil.
C2_AdjacentSegmentsConcatenate ==
  [][ /\ ScanReads(quotingState, nonEscapingQuoteRuneClass)
          => GoesOn(inWordState, value)
      /\ ScanReads(quotingEscapingState, escapingQuoteRuneClass)
          => GoesOn(inWordState, value)
      /\ ReturnsWord
          => /\ state = inWordState
             /\ nextRuneType \in { spaceRuneClass, eofRuneClass }
      /\ SplitReturned(InAdjacent, << << "a","b","c" >> >>, NoErr)' ]_vars

C2_Witness ==
  /\ SplitDone
  /\ input = InAdjacent
  /\ splitRet.words = << << "a","b","c" >> >>

\* the entries of the Tokenizer's log that are tokens of type tt returned
\* with a nil error
TokensOf(tt) ==
  SelectSeq(tlog, LAMBDA e : e.err = NoErr /\ ~ e.token.nil
                             /\ e.token.tokenType = tt)

\* the words the Lexer has returned so far
LexerWords ==
  LET ok == SelectSeq(llog, LAMBDA e : e.err = NoErr)
  IN  [i \in 1..Len(ok) |-> ok[i].word]

TokenizerWords ==
  LET ok == TokensOf(WordToken)
  IN  [i \in 1..Len(ok) |-> ok[i].token.value]

\* the scan behind the Comment token e read input[e.from+1 .. e.to]: skipped
\* whitespace, a comment rune, the comment's text, and then the newline that
\* ended it unless the input ended first
CommentSpan(e) ==
  LET last == IF input[e.to] = "\n" THEN e.to - 1 ELSE e.to
  IN  /\ e.to = Len(input) \/ input[e.to] = "\n"
      /\ \E k \in (e.from + 1)..last :
            /\ input[k] \in commentRunes
            /\ \A j \in (e.from + 1)..(k - 1) : input[j] \in spaceRunes
            /\ e.token.value = SubSeq(input, k + 1, last)
      /\ \A i \in 1..Len(e.token.value) : e.token.value[i] # "\n"

\* every scan starts where the one before it stopped
ScansAdjoin ==
  /\ tlog # << >> => tlog[1].from = 0
  /\ \A i \in 1..(Len(tlog) - 1) : tlog[i + 1].from = tlog[i].to

C3_CommentsDropped ==
  /\ \A i \in 1..Len(TokensOf(CommentToken)) :
        CommentSpan(TokensOf(CommentToken)[i])
  /\ ScansAdjoin
  /\ api \in { "Lexer", "Split" } /\ pc # "lexer" => LexerWords = TokenizerWords
  /\ api = "Split" /\ pc = "done" => splitRet.words = TokenizerWords

C4_EscapedWhitespace ==
  [][ /\ ScanReads(escapingState, spaceRuneClass)
          => GoesOn(inWordState, Append(value, nextRune))
      /\ ScanReads(startState, escapeRuneClass)
          => GoesOn(escapingState, value) /\ tokenType' = WordToken
      /\ ScanReads(inWordState, escapeRuneClass)
          => GoesOn(escapingState, value)
      /\ SplitReturned(InEscapedSpace, << << "a"," ","b" >> >>, NoErr)' ]_vars

C4_Witness ==
  /\ SplitDone
  /\ input = InEscapedSpace
  /\ splitRet.words = << << "a"," ","b" >> >>

\* C5: a backslash read in quotingState is appended and the scanner stays in
\* quotingState, where a single quote, also one right after the backslash,
\* closes the quote; Split(`'a\b'`) = [`a\b`], nil and Split(`'\'`) = [`\`], nil.
C5_NoEscapeInSingleQuotes ==
  [][ /\ ScanReads(quotingState, escapeRuneClass)
          => GoesOn(quotingState, Append(value, nextRune))
      /\ ScanReads(quotingState, nonEscapingQuoteRuneClass)
          => GoesOn(inWordState, value)
      /\ SplitReturned(InSingleQuotedEscape, << << "a","\\","b" >> >>, NoErr)'
      /\ SplitReturned(<< "'","\\","'" >>, << << "\\" >> >>, NoErr)' ]_vars

C5_Witness ==
  /\ SplitDone
  /\ input = InSingleQuotedEscape
  /\ splitRet.words = << << "a","\\","b" >> >>

\* Tokenizer.Next ended on end of input inside a quote or after an escape
EndsMalformed ==
  /\ tlog # << >>
  /\ tlog[Len(tlog)].err \in { ErrEscapeEOF, ErrQuoteEOF }

CountOf(s, S) == Cardinality({ i \in 1..Len(s) : s[i] \in S })

\* inputs that end inside an open double quote, or right after a backslash,
\* told from the input alone
OpenDoubleQuote(s) ==
  /\ OnlyClasses(s, { charRuneClass, spaceRuneClass, escapingQuoteRuneClass })
  /\ CountOf(s, escapingQuoteRunes) % 2 = 1

TrailingEscape(s) ==
  /\ s # << >>
  /\ s[Len(s)] \in escapeRunes
  /\ OnlyClasses(SubSeq(s, 1, Len(s) - 1), { charRuneClass, spaceRuneClass })

\* C6: when the input ends inside an open quote or right after an escape
\* rune, Split returns that non-nil error, and its words are exactly the Word
\* tokens scanned before the failing scan began, each read from input that
\* lies wholly before the unterminated segment (so neither its text nor the
\* trailing backslash is in any word); Split(`"unterminated`) and
\* Split(`trailing\`) return no word and an error.
C6_MalformedEnd ==
  /\ api = "Split" /\ pc = "done" /\ EndsMalformed =>
       /\ splitRet.err = tlog[Len(tlog)].err
       /\ splitRet.err # NoErr
       /\ splitRet.words = TokenizerWords
       /\ Len(splitRet.words) = Len(tlog) - 1 - Len(TokensOf(CommentToken))
       /\ \A i \in 1..(Len(tlog) - 1) :
             /\ tlog[i].err = NoErr
             /\ tlog[i].to <= tlog[Len(tlog)].from
  /\ SplitDone /\ OpenDoubleQuote(input) => splitRet.err = ErrQuoteEOF
  /\ SplitDone /\ TrailingEscape(input) => splitRet.err = ErrEscapeEOF
  /\ SplitReturned(InUnterminatedQuote, << >>, ErrQuoteEOF)
  /\ SplitReturned(InTrailingEscape, << >>, ErrEscapeEOF)
  /\ SplitReturned(InWordThenOpenQuote, << << "o","k" >> >>, ErrQuoteEOF)

C6_Witness ==
  /\ SplitDone
  /\ input = InWordThenOpenQuote
  /\ EndsMalformed
  /\ splitRet.words = << << "o","k" >> >>
  /\ splitRet.err = ErrQuoteEOF

\* C7: a result of Tokenizer.Next whose error is the unterminated-escape or
\* the unterminated-quote error carries no token.
C7_NoPartialToken ==
  \A i \in 1..Len(tlog) :
     tlog[i].err \in { ErrEscapeEOF, ErrQuoteEOF } => tlog[i].token.nil

C9_SplitCollects ==
  api = "Split" /\ pc = "done" =>
    LET n == Len(llog) IN
      /\ n >= 1
      /\ llog[n].err # NoErr
      /\ \A i \in 1..(n - 1) : llog[i].err = NoErr
      /\ ~ splitRet.nil
      /\ splitRet.words = [i \in 1..(n - 1) |-> llog[i].word]
      /\ splitRet.err = IF llog[n].err = ioEOF THEN NoErr ELSE llog[n].err

\* Split returned words together with an error
C9_Witness ==
  /\ api = "Split"
  /\ pc = "done"
  /\ Len(splitRet.words) >= 1
  /\ splitRet.err = ErrUnknownRune("!")

\* C10: for an input of charRunes and spaceRunes only, Split of the words of
\* Split(input) joined by single spaces returns no error and the same words.
C10_RoundTrip ==
  /\ api = "Split"
  /\ pc = "done"
  /\ round = 2
  /\ OnlyClasses(first.input, { charRuneClass, spaceRuneClass })
  => /\ input = Join(first.words)
     /\ splitRet.err = NoErr
     /\ splitRet.words = first.words

C10_Witness ==
  /\ api = "Split"
  /\ pc = "done"
  /\ round = 2
  /\ first.input = InPlainWords
  /\ Len(first.words) = 3
  /\ splitRet.words = first.words

\* the Tokenizer's results that are not Comment tokens
WithoutComments ==
  SelectSeq(tlog, LAMBDA e : ~ (/\ e.err = NoErr
                                /\ ~ e.token.nil
                                /\ e.token.tokenType = CommentToken))

\* what Lexer.Next makes of a result of Tokenizer.Next: the token's text, or
\* the error
AsWord(e) ==
  [word |-> IF e.err = NoErr THEN e.token.value ELSE << >>, err |-> e.err]

\* C11: whenever Lexer.Next has returned, the results of all its calls so far
\* are the results of its Tokenizer's calls with the Comment tokens left out:
\* the same words in the same order, and io.EOF and every error at the same
\* place and unchanged.
C11_LexerFiltersComments ==
  api \in { "Lexer", "Split" } /\ pc \in { "idle", "split", "done" } =>
    llog = [i \in 1..Len(WithoutComments) |-> AsWord(WithoutComments[i])]

\* the Lexer has returned a word that came after a comment, and then io.EOF
C11_Witness ==
  /\ api = "Lexer"
  /\ pc = "idle"
  /\ input = InComment
  /\ Len(tlog) = 3
  /\ llog = << [word |-> << "w","o","r","d" >>, err |-> NoErr],
               [word |-> << >>, err |-> ioEOF] >>

\* the runes the default classifier is said to know, class by class
SaidOrdinary ==
  { "a","b","c","d","e","f","g","h","i","j","k","l","m",
    "n","o","p","q","r","s","t","u","v","w","x","y","z",
    "A","B","C","D","E","F","G","H","I","J","K","L","M",
    "N","O","P","Q","R","S","T","U","V","W","X","Y","Z",
    "0","1","2","3","4","5","6","7","8","9" } \cup { ".", "_", "-", ",", "|" }

SaidWhitespace == { " ", "\t", "\r", "\n" }

\* some of the runes it is said not to know
SaidUnrecognized ==
  { "!", "$", "=", "/", "*", "@", "~", "(", ")", "{", "}", "<", ">", "&", ";",
    "?", "+", "%", ":", "[", "]", NUL }

\* C12: the classifier of the Tokenizer maps letters, digits and . _ - , | to
\* charRuneClass, space, tab, CR and LF to spaceRuneClass, the two quotes, the
\* backslash and # to their classes and every other rune to unknownRuneClass;
\* and Split("a|b") = ["a|b"], nil.
C12_DefaultClassifier ==
  /\ \A r \in SaidOrdinary : ClassifyRune(r) = charRuneClass
  /\ \A r \in SaidWhitespace : ClassifyRune(r) = spaceRuneClass
  /\ ClassifyRune("\"") = escapingQuoteRuneClass
  /\ ClassifyRune("'") = nonEscapingQuoteRuneClass
  /\ ClassifyRune("\\") = escapeRuneClass
  /\ ClassifyRune("#") = commentRuneClass
  /\ \A r \in SaidUnrecognized : ClassifyRune(r) = unknownRuneClass
  /\ SplitReturned(InPipe, << << "a","|","b" >> >>, NoErr)

\* the errors that report the end of the input
EndOfInputErrs == { ioEOF, ErrEscapeEOF, ErrQuoteEOF }

\* the calls of Tokenizer.Next so far that did not report the end of input
CallsBeforeEnd == SelectSeq(tlog, LAMBDA e : e.err \notin EndOfInputErrs)

C13_CursorAdvances ==
  /\ \A i \in 1..Len(tlog) :
        /\ tlog[i].from <= tlog[i].to
        /\ tlog[i].err \notin EndOfInputErrs => tlog[i].from < tlog[i].to
        /\ tlog[i].err \in EndOfInputErrs => tlog[i].to = Len(input)
  /\ ScansAdjoin
  /\ Len(CallsBeforeEnd) <= Len(input)
  /\ Len(tlog) > Len(input) =>
        \E i \in 1..Len(tlog) : tlog[i].err \in EndOfInputErrs

\* C13: every call of Tokenizer.Next that does not report the end of input
\* leaves the cursor strictly beyond where the call found it, and every call
\* starts where the last one stopped, so at most Len(input) calls come before
\* one that reports the end of input; and every call of Tokenizer.Next, of
\* Lexer.Next and of Split that is under way returns.
C13_Termination ==
  /\ []C13_CursorAdvances
  /\ (pc = "scan") ~> (pc \in { "idle", "done" })
  /\ (api = "Split" /\ pc \in { "scan", "lexer", "split" }) ~> (pc = "done")
  /\ (api = "Lexer" /\ pc \in { "scan", "lexer" }) ~> (pc = "idle")

\* three calls on `a a`: two words, then io.EOF
C13_Witness ==
  /\ api = "Tokenizer"
  /\ pc = "idle"
  /\ input = << "a"," ","a" >>
  /\ Len(tlog) = 3
  /\ tlog[2].from = 1 /\ tlog[2].to = 3
  /\ tlog[3].err = ioEOF

\* C14: a.Equal(b) is true for two tokens of the same type and the same
\* text, false for two tokens that differ in type or in text, and false when
\* a or b is nil, also when both are.
C14_TokenEqual ==
  eqArgs # << >> =>
    LET a == eqArgs[1]
        b == eqArgs[2]
    IN  /\ a.nil \/ b.nil => eqRet = FALSE
        /\ ~ a.nil /\ ~ b.nil /\ a.tokenType = b.tokenType /\ a.value = b.value
             => eqRet = TRUE
        /\ ~ a.nil /\ ~ b.nil /\ a.tokenType # b.tokenType => eqRet = FALSE
        /\ ~ a.nil /\ ~ b.nil /\ a.value # b.value => eqRet = FALSE

\* nil.Equal(nil) has been called and returned false
C14_Witness ==
  /\ eqArgs = << NilToken, NilToken >>
  /\ eqRet = FALSE

KnownClasses ==
  { charRuneClass, spaceRuneClass, escapingQuoteRuneClass,
    nonEscapingQuoteRuneClass, escapeRuneClass, commentRuneClass }

\* the step returned the token (tt, v) with a nil error, the cursor at p
ReturnsToken(tt, v, p) ==
  /\ Len(tlog') = Len(tlog) + 1
  /\ retToken' = Token(tt, v)
  /\ retErr' = NoErr
  /\ pos' = p

Enclosing(st) ==
  IF st = escapingState THEN inWordState ELSE quotingEscapingState

\* an escape rune read where it escapes is consumed and not appended
EscapeNotAppended ==
  /\ ScanReads(startState, escapeRuneClass) => GoesOn(escapingState, value)
  /\ ScanReads(inWordState, escapeRuneClass) => GoesOn(escapingState, value)
  /\ ScanReads(quotingEscapingState, escapeRuneClass) =>
       GoesOn(escapingQuotedState, value)

HashLiteralInWord ==
  /\ ScanReads(startState, commentRuneClass) =>
       GoesOn(commentState, value) /\ tokenType' = CommentToken
  /\ \A st \in { inWordState, quotingEscapingState, quotingState } :
       ScanReads(st, commentRuneClass) =>
         GoesOn(st, Append(value, nextRune)) /\ tokenType' = WordToken
  /\ \A st \in { escapingState, escapingQuotedState } :
       ScanReads(st, commentRuneClass) =>
         GoesOn(Enclosing(st), Append(value, nextRune))
           /\ tokenType' = WordToken

\* the position of the rune that began the token of log entry e: the first
\* rune of the call that startState did not skip as whitespace
BeginOf(e) ==
  CHOOSE h \in (e.from + 1)..e.to :
    /\ ClassifyRune(input[h]) # spaceRuneClass
    /\ \A k \in (e.from + 1)..(h - 1) : ClassifyRune(input[k]) = spaceRuneClass

\* every Comment token began with a comment rune that the start of the input
\* or a whitespace rune (a newline that ended a comment included) precedes
CommentsBeginAtBoundary ==
  api = "Tokenizer" =>
    \A i \in 1..Len(tlog) :
      tlog[i].err = NoErr /\ tlog[i].token.tokenType = CommentToken =>
        LET h == BeginOf(tlog[i])
        IN  /\ input[h] \in commentRunes
            /\ h = 1 \/ ClassifyRune(input[h - 1]) = spaceRuneClass

\* C17: a comment rune opens a comment only when it is read in startState; in
\* inWordState, in either quoting state and after an escape it is appended to
\* the Word token; so every Comment token Tokenizer.Next returned began with
\* a comment rune preceded only by the start of the input or by whitespace.
C17_CommentOnlyAtWordBoundary ==
  /\ [][HashLiteralInWord]_vars
  /\ []CommentsBeginAtBoundary

\* scanStream reads a whitespace rune in inWordState: the one read followed
\* by UnreadRune
PushesBack == ScanReads(inWordState, spaceRuneClass)

\* log entry e is a Word token whose call ended on a pushed-back rune, not on
\* the end of the input
EndedByPushback(e) ==
  /\ e.err = NoErr
  /\ e.token.tokenType = WordToken
  /\ e.to < Len(input)

\* what one step does to the cursor: a read advances it by one rune; only the
\* whitespace read in inWordState is unread, at once, and the Word token is
\* returned in the same step with that rune left out; a read at the end of
\* the input and a step that reads nothing leave the cursor where it was
CursorStep ==
  /\ pos' \in { pos, pos + 1 }
  /\ pc # "scan" => pos' = pos
  /\ pc = "scan" /\ nextRuneType = eofRuneClass => pos' = pos
  /\ pc = "scan" /\ nextRuneType # eofRuneClass /\ ~ PushesBack =>
       pos' = pos + 1
  /\ PushesBack => ReturnsToken(WordToken, value, pos)

\* the rune a call left pending is the first rune the next call reads, and
\* startState skips it: no token, no text
PendingRuneSkipped ==
  /\ pc = "scan"
  /\ pos = tokStart
  /\ state = startState
  /\ tlog # << >>
  /\ EndedByPushback(tlog[Len(tlog)])
  => /\ tlog[Len(tlog)].to = pos
     /\ nextRuneType = spaceRuneClass
     /\ GoesOn(startState, << >>)

\* C18: over the calls made on one instance, a rune is pushed back only when
\* it is a whitespace rune read in inWordState, right after the read and in
\* the step that returns the Word token; never more than one rune is pending;
\* the next call reads the pending rune first and skips it in startState; no
\* other rune is read twice and none is lost.
C18_Pushback ==
  [][ round' = round => CursorStep /\ PendingRuneSkipped ]_vars

\* a call that followed a Word token ended by a space has re-read that space
\* in startState and skipped it
C18_Witness ==
  /\ api = "Tokenizer"
  /\ pc = "scan"
  /\ Len(tlog) = 1
  /\ EndedByPushback(tlog[1])
  /\ tlog[1].to = tokStart
  /\ pos = tokStart + 1
  /\ input[pos] = " "
  /\ state = startState
  /\ value = << >>

\* the errors scanStream makes itself: everything but nil and io.EOF
IsScanError(err) == err \notin { NoErr, ioEOF }

\* C19: once a call of Tokenizer.Next or Lexer.Next has returned a scan
\* error (unknown rune, EOF in a quote, EOF after an escape), no later call on
\* the same instance returns a token or a word, and the cursor stays where
\* the failed call left it.
C19_NoRecoveryAfterScanError ==
  /\ api = "Tokenizer" =>
       \A i, j \in 1..Len(tlog) :
         i < j /\ IsScanError(tlog[i].err) =>
           /\ tlog[j].token.nil
           /\ tlog[j].err # NoErr
           /\ tlog[j].to = tlog[i].to
  /\ api = "Lexer" =>
       \A i, j \in 1..Len(llog) :
         i < j /\ IsScanError(llog[i].err) => llog[j].err # NoErr

\* C20: every token Tokenizer.Next returns with a nil error is a WordToken or
\* a CommentToken, never an UnknownToken or a SpaceToken; so Lexer.Next,
\* which switches on that type, never takes its default branch and never
\* returns the unknown-token-type error.
C20_TokenTypeWordOrComment ==
  /\ \A i \in 1..Len(tlog) :
       tlog[i].err = NoErr =>
         /\ ~ tlog[i].token.nil
         /\ tlog[i].token.tokenType \in { WordToken, CommentToken }
  /\ pc = "lexer" /\ retErr = NoErr =>
       retToken.tokenType \in { WordToken, CommentToken }
  /\ \A i \in 1..Len(llog) :
       \A tt \in { UnknownToken, WordToken, SpaceToken, CommentToken } :
         llog[i].err # ErrUnknownTokenType(tt)

\* Lexer.Next was handed a CommentToken, then a WordToken, and returned the
\* word
C20_Witness ==
  /\ api = "Lexer"
  /\ pc = "idle"
  /\ input = InCommentAllClasses
  /\ Len(tlog) = 2
  /\ tlog[1].token.tokenType = CommentToken
  /\ tlog[2].token.tokenType = WordToken
  /\ llog = << [word |-> << "b" >>, err |-> NoErr] >>

\* once a logged call returned io.EOF, every later logged call returned
\* io.EOF too, without a token or a word; a call that returned io.EOF read
\* nothing but whitespace up to the end of the input
EndOfStreamStable ==
  /\ \A i, j \in 1..Len(tlog) :
       i < j /\ tlog[i].err = ioEOF =>
         /\ tlog[j].err = ioEOF
         /\ tlog[j].token.nil
         /\ tlog[j].from = Len(input)
  /\ \A i \in 1..Len(tlog) :
       tlog[i].err = ioEOF =>
         /\ tlog[i].token.nil
         /\ tlog[i].to = Len(input)
         /\ \A k \in (tlog[i].from + 1)..tlog[i].to :
              ClassifyRune(input[k]) = spaceRuneClass
  /\ \A i, j \in 1..Len(llog) :
       i < j /\ llog[i].err = ioEOF =>
         llog[j] = [word |-> << >>, err |-> ioEOF]

\* scanStream returns io.EOF only on reading the end of the input in
\* startState, where no text has been gathered; the end of the input read in
\* any other state returns the word, the comment or the EOF error of that
\* state
EndOfStreamOnlyInStart ==
  /\ pc = "scan" /\ Len(tlog') > Len(tlog) /\ retErr' = ioEOF =>
       /\ state = startState
       /\ nextRuneType = eofRuneClass
       /\ value = << >>
       /\ retToken' = NilToken
  /\ ScanReads(startState, eofRuneClass) =>
       retErr' = ioEOF /\ retToken' = NilToken
  /\ ScanReads(inWordState, eofRuneClass) =>
       ReturnsToken(WordToken, value, pos)
  /\ ScanReads(commentState, eofRuneClass) =>
       ReturnsToken(CommentToken, value, pos)
  /\ \A st \in { escapingState, escapingQuotedState } :
       ScanReads(st, eofRuneClass) => retErr' = ErrEscapeEOF
  /\ \A st \in { quotingEscapingState, quotingState } :
       ScanReads(st, eofRuneClass) => retErr' = ErrQuoteEOF

\* C21: io.EOF is stable: after Tokenizer.Next returned it, every later call
\* on that instance, and every later Lexer.Next over it, returns io.EOF with
\* no token; and io.EOF is returned only when the end of the input is read in
\* startState, never in place of a word or a comment in progress or of an
\* EOF-in-quote or EOF-after-escape error.
C21_EndOfStream ==
  /\ []EndOfStreamStable
  /\ [][EndOfStreamOnlyInStart]_vars

\* after the word of "a " the Tokenizer returned io.EOF, having skipped the
\* space, and io.EOF again on the call after that
C21_Witness ==
  /\ api = "Tokenizer"
  /\ pc = "idle"
  /\ input = << "a", " " >>
  /\ Len(tlog) = 3
  /\ tlog[1].token = Token(WordToken, << "a" >>)
  /\ tlog[2] = [token |-> NilToken, err |-> ioEOF, from |-> 1, to |-> 2]
  /\ tlog[3] = [token |-> NilToken, err |-> ioEOF, from |-> 2, to |-> 2]

QuoteClasses == { escapingQuoteRuneClass, nonEscapingQuoteRuneClass }

\* log entry e is a Word token with no text, returned with a nil error
EmptyWord(e) ==
  /\ e.err = NoErr
  /\ ~ e.token.nil
  /\ e.token.tokenType = WordToken
  /\ e.token.value = << >>

\* C22: an empty pair of quotes at a word boundary yields a Word token with
\* empty text, not no token: Split of a "" b and of a '' b returns a, "", b.
\* Conversely a Word token returned with a nil error has empty text only if
\* the runes consumed for it, from the one that began it, are all quote
\* delimiters.
C22_EmptyQuotes ==
  /\ SplitReturned(InEmptyDoubleQuotes, << << "a" >>, << >>, << "b" >> >>, NoErr)
  /\ SplitReturned(InEmptySingleQuotes, << << "a" >>, << >>, << "b" >> >>, NoErr)
  /\ \A i \in 1..Len(tlog) :
       EmptyWord(tlog[i]) =>
         \A k \in BeginOf(tlog[i])..tlog[i].to :
           ClassifyRune(input[k]) \in QuoteClasses

\* Split of a "" b has returned, the empty word between a and b
C22_Witness ==
  /\ SplitDone
  /\ input = InEmptyDoubleQuotes
  /\ Len(tlog) = 4
  /\ EmptyWord(tlog[2])
  /\ splitRet.err = NoErr
  /\ splitRet.words = << << "a" >>, << >>, << "b" >> >>

====
